---------------------------- MODULE Spec2Model ----------------------------
(***************************************************************************)
(* Model of myrio/c/src/trajectory_controller.c: the path-tracking         *)
(* controller of the Autobike, one call per control cycle.                 *)
(*                                                                         *)
(* Numbers.  A double is modelled by an integer n standing for the value   *)
(* n * (pi/8): M_PI is 8, M_PI/4 is 2, a heading of pi/2 is 4, and a       *)
(* coordinate n is n*(pi/8) metres.  Gains, filter coefficients and the    *)
(* results of sign, sin and cos are plain numbers.  The code never adds a  *)
(* plain number to a grid value, so the two kinds never mix.  Sums,        *)
(* differences, products with plain numbers and comparisons are exact on   *)
(* this grid.  sqrt and / are the only operations that leave the grid;     *)
(* where their result is stored (dis, dpsiref) it is rounded toward zero   *)
(* to the grid, a coarser rounding than the one of IEEE doubles.  The      *)
(* final roll transform, which needs tan, atan and g = 9.81, is computed   *)
(* in thousandths.  Headings that reach sin or cos are multiples of pi/2,  *)
(* where both are exact.  inf and NaN are not represented: a call whose    *)
(* sample time Ts_psi would be 0 is outside the model.                     *)
(***************************************************************************)
EXTENDS Integers, FiniteSets, Sequences, TLC

---------------------------------------------------------------------------
(* Bounds of the model *)

\* largest window length N supplied by the caller (windows have 4..MaxN points)
MaxN == 5
\* the persisted filter state is kept within -MaxX..MaxX
MaxX == 6
\* the periodicity of wrap_angle is checked for shifts of -MaxK..MaxK turns
MaxK == 2

(* Program constants *)

\* M_PI, in grid units of pi/8
PI == 8
\* sizeof(traj_loc) is the size of a pointer: 4 bytes on the 32-bit target,
\* 8 bytes on a 64-bit host build
PointerBytes == {4, 8}

---------------------------------------------------------------------------
(* Arithmetic helpers: C's double operations on the grid *)

Abs(a) == IF a < 0 THEN -a ELSE a

\* floor(a / b) for b # 0
Floor(a, b) == IF b > 0 THEN a \div b ELSE (-a) \div (-b)

\* a / b rounded toward zero, b > 0
Quot(a, b) == IF a >= 0 THEN a \div b ELSE -((-a) \div b)

\* fmod(a, b) of <math.h>, b > 0: the remainder has the sign of a
Fmod(a, b) == IF a >= 0 THEN a % b ELSE -((-a) % b)

\* sqrt(n) rounded toward zero
Sqrt(n) == CHOOSE r \in 0..n : r * r <= n /\ (r + 1) * (r + 1) > n

\* pow(a, 2.0)
Pow2(a) == a * a

\* cos and sin at the multiples of pi/2
Cos(a) == CASE a % 16 = 0 -> 1 [] a % 16 = 4 -> 0 [] a % 16 = 8 -> -1 [] a % 16 = 12 -> 0
Sin(a) == CASE a % 16 = 0 -> 0 [] a % 16 = 4 -> 1 [] a % 16 = 8 -> 0 [] a % 16 = 12 -> -1

---------------------------------------------------------------------------
(* The helper functions of the source *)

\* sign value for double
sign(value) == IF value > 0 THEN 1 ELSE IF value < 0 THEN -1 ELSE 0

\* Min function for double
min(a, b) == IF a < b THEN a ELSE b

\* Modulo function: a - floor(a / b) * b
mod(a, b) == a - Floor(a, b) * b

\* faulty variant of wrap_angle: the negative remainder is not corrected
wrap_angle_no_correction(angle) == Fmod(angle + PI, 2 * PI) - PI

\* Wrap angle between pi and -pi
wrap_angle(angle) ==
    LET wrapped_angle == Fmod(angle + PI, 2 * PI)
    IN  (IF wrapped_angle < 0 THEN wrapped_angle + 2 * PI ELSE wrapped_angle) - PI

---------------------------------------------------------------------------
(* tan and atan of <math.h> and g, in thousandths, for the roll transform *)

\* #define g 9.81
g1000 == 9810

\* tan at the grid angles k*pi/8; the clamped steering angle only reaches |k| <= 2
Tan1000(a) ==
    sign(a) * (CASE Abs(a) = 0 -> 0 [] Abs(a) = 1 -> 414 [] Abs(a) = 2 -> 1000
                 [] OTHER -> 2414)

\* atan(q): q / (1 + 0.28 q^2) for |q| <= 1, pi/2 - atan(1/q) beyond
\* (exact at 0, odd, within 0.005 rad of atan)
Atan1000(q) ==
    LET a == Abs(q)
        small(t) == Quot(t * 1000, 1000 + Quot(280 * t * t, 1000000))
    IN  sign(q) * (IF a <= 1000 THEN small(a) ELSE 1571 - small(Quot(1000000, a)))

---------------------------------------------------------------------------
(* The body of trajectory_controller, statement by statement *)

\* int size_traj_loc = sizeof(traj_loc) / 3;  traj_loc is a double*, so this
\* is the size of a pointer divided by 3, whatever the caller's buffer holds
SizeTrajLoc(pointer_bytes) == pointer_bytes \div 3

\* the unpacking loop: three arrays of size_traj_loc elements
UnpackX(traj_loc, size) == [i \in 0..(size - 1) |-> traj_loc[i]]
UnpackY(traj_loc, size) == [i \in 0..(size - 1) |-> traj_loc[i + size]]
UnpackPsi(traj_loc, size) == [i \in 0..(size - 1) |-> traj_loc[i + 2 * size]]

\* arr[i] as the code reads it: inside the array its element; outside it the
\* read is undefined behaviour and yields whatever the neighbouring stack
\* words hold (one arbitrary word per parity of i: the code reads at most two
\* indices outside an array, size_traj_loc and size_traj_loc + 1)
Elem(arr, words, i) == IF i \in DOMAIN arr THEN arr[i] ELSE words[i % 2]

\* X_loc[i], Y_loc[i] and Psi_loc[i] as the code reads them, for every index
\* it can form
Reads(Xl, Yl, Pl, w) ==
    LET range == -1..(MaxN + 3)
    IN  [X |-> [i \in range |-> Elem(Xl, w.X, i)],
         Y |-> [i \in range |-> Elem(Yl, w.Y, i)],
         Psi |-> [i \in range |-> Elem(Pl, w.Psi, i)]]

\* squared distance from the estimated position to point i
\* pow(X_loc[i]-X_est,2.0) + pow(Y_loc[i]-Y_est,2.0)
Dist2(m, i, X_est, Y_est) == Pow2(m.X[i] - X_est) + Pow2(m.Y[i] - Y_est)

\* int closestpoint_idx = 1;
StartIdx == 1

\* faulty variant of the bound: the search may run two points further
InWindowLoose(idx, size) == idx <= size + 1

\* second operand of the while condition
InWindow(idx, size) == idx <= size - 1

\* while (dist(idx) >= dist(idx+1) && idx <= size_traj_loc-1) idx += 1;
RECURSIVE Search(_, _, _, _, _)
Search(m, idx, size, X_est, Y_est) ==
    IF Dist2(m, idx, X_est, Y_est) >= Dist2(m, idx + 1, X_est, Y_est)
       /\ InWindow(idx, size)
    THEN Search(m, idx + 1, size, X_est, Y_est)
    ELSE idx

\* Limit D_psiref between -pi and pi
LimitDpsiref(D_psiref) ==
    LET d1 == IF D_psiref >= PI THEN mod(D_psiref, -2 * PI) ELSE D_psiref
    IN  IF d1 <= -PI THEN mod(d1, 2 * PI) ELSE d1

\* projected_dist >= compared_dist.  With p the vector from the previous point
\* to the bike, fabs(|p| * cos(atan(p.y/p.x) - psi)) is |p.x cos psi + p.y sin psi|
\* (atan(+-inf) = +-pi/2 when p.x = 0); both sides are >= 0, so they are
\* compared by their squares.  When the bike is on the previous point the
\* quotient is 0/0, alpha_star is NaN and the comparison is false.
PassedPoint(m, idx, X_est, Y_est) ==
    LET px == X_est - m.X[idx - 1]
        py == Y_est - m.Y[idx - 1]
        proj == px * Cos(m.Psi[idx]) + py * Sin(m.Psi[idx])
        compared2 == Pow2(m.X[idx] - m.X[idx - 1]) + Pow2(m.Y[idx] - m.Y[idx - 1])
    IN  IF px = 0 /\ py = 0 THEN FALSE ELSE Pow2(proj) >= compared2

\* closestpoint_heading_idx
HeadingIdx(m, idx, X_est, Y_est) ==
    IF PassedPoint(m, idx, X_est, Y_est) THEN idx + 1 ELSE idx

\* the indices at which X_loc, Y_loc and Psi_loc are read: idx and idx+1 at
\* every evaluation of the while condition, then idx-1, idx, idx+1 and the
\* heading index
IndicesRead(idx, heading_idx) ==
    (StartIdx..(idx + 1)) \cup {idx - 1, idx, idx + 1, heading_idx}

\* Steering contribution from trajectory error
DeltaRefError(k1, k2, e1_max, e1, e2) ==
    -k1 * sign(e1) * min(Abs(e1), e1_max) - k2 * e2

\* faulty variant of the filter update: x is not kept between calls
XDotNotStatic(Ad_t, Bd_t, xs, dpsiref) == Bd_t * dpsiref

\* x_dot = Ad_t*x + Bd_t*dpsiref
XDot(Ad_t, Bd_t, xs, dpsiref) == Ad_t * xs + Bd_t * dpsiref

\* delta_ref_psi = C_t*x + D_t*dpsiref
DeltaRefPsi(C_t, D_t, xs, dpsiref) == C_t * xs + D_t * dpsiref

\* faulty variant of the limiter: only the upper limit is applied
ClampUpperOnly(delta_ref) == IF 4 * delta_ref >= PI THEN PI \div 4 ELSE delta_ref

\* Limit steer angle reference between -pi/4 and pi/4
Clamp(delta_ref) ==
    LET d1 == IF 4 * delta_ref >= PI THEN PI \div 4 ELSE delta_ref
    IN  IF 4 * d1 <= -PI THEN -(PI \div 4) ELSE d1

\* Transform steering reference into roll reference, in thousandths of a radian
RollRef(delta_ref, v, lr, lf, lambda) ==
    LET eff_delta_ref == delta_ref * Sin(lambda)
        v2_over_l == Quot(v * v * Quot(3142, PI), lr + lf)
        arg == Quot(Quot(Tan1000(eff_delta_ref) * v2_over_l, 1000) * 1000, g1000)
    IN  -Atan1000(arg)

\* the locals of one call, from its arguments a, the stack words w next to
\* the arrays, the filter state xs at entry and the pointer size
Frame(a, w, xs, pointer_bytes) ==
    LET size == SizeTrajLoc(pointer_bytes)
        Xl == UnpackX(a.traj_loc, size)
        Yl == UnpackY(a.traj_loc, size)
        Pl == UnpackPsi(a.traj_loc, size)
        m == Reads(Xl, Yl, Pl, w)
        idx == Search(m, StartIdx, size, a.X_est, a.Y_est)
        dx == a.X_est - m.X[idx]
        dy == a.Y_est - m.Y[idx]
        D_psiref == LimitDpsiref(m.Psi[idx + 1] - m.Psi[idx])
        hidx == HeadingIdx(m, idx, a.X_est, a.Y_est)
        e1 == dy * Cos(m.Psi[hidx]) - dx * Sin(m.Psi[hidx])
        e2 == wrap_angle(a.Psi_est - m.Psi[hidx])
        dX == m.X[idx + 1] - m.X[idx]
        dY == m.Y[idx + 1] - m.Y[idx]
        dis == Sqrt(Pow2(dX) + Pow2(dY))
        \* Ts_psi = dis / v;  dpsiref = D_psiref / Ts_psi
        dpsiref == IF dis = 0 THEN 0 ELSE Quot(D_psiref * a.v, dis)
        delta_ref_error == DeltaRefError(a.traj_params[1], a.traj_params[2],
                                         a.traj_params[3], e1, e2)
        x_dot == XDot(a.Ad_t, a.Bd_t, xs, dpsiref)
        delta_ref_psi == DeltaRefPsi(a.C_t, a.D_t, xs, dpsiref)
        delta_ref == Clamp(delta_ref_psi + delta_ref_error)
    IN  [size_traj_loc |-> size, X_loc |-> Xl, Y_loc |-> Yl, Psi_loc |-> Pl,
         closestpoint_idx |-> idx, closestpoint_heading_idx |-> hidx,
         reads |-> IndicesRead(idx, hidx),
         D_psiref |-> D_psiref, e1 |-> e1, e2 |-> e2, dis |-> dis,
         dpsiref |-> dpsiref, delta_ref_error |-> delta_ref_error,
         x_dot |-> x_dot, delta_ref_psi |-> delta_ref_psi,
         delta_ref |-> delta_ref]

---------------------------------------------------------------------------
(* The callers' inputs *)

\* a window of n waypoints along the X axis, 4 grid units apart, heading 0:
\* the buffer [X_0..X_{n-1}, Y_0..Y_{n-1}, Psi_0..Psi_{n-1}]
LineX(n) == [k \in 0..(3 * n - 1) |-> IF k < n THEN 4 * k ELSE 0]

\* a window of n waypoints along the Y axis, 4 grid units apart, heading pi/2
LineY(n) ==
    [k \in 0..(3 * n - 1) |-> IF k < n THEN 0 ELSE IF k < 2 * n THEN 4 * (k - n) ELSE PI \div 2]

Windows == UNION {{LineX(n), LineY(n)} : n \in 4..MaxN}

\* estimated pose: behind the window, between its first two points, on its
\* second point, near its end; on the X axis and beside it; headings in and
\* out of [-pi, pi)
XEstimates == {-8, 2, 4, 14}
YEstimates == {0, 2}
PsiEstimates == {-11, 0, 8}

Velocities == {4}

\* bike_params = [lr lf lambda], lambda = pi/2
BikeParams == {<<4, 4, PI \div 2>>}

\* traj_params = [k1 k2 e1_max]
TrajParams == {<<1, 1, 1>>}

\* (Ad_t, Bd_t, C_t, D_t): a pass-through and an integrator
FilterCoeffs == {<<0, 0, 0, 1>>, <<1, 1, 1, 1>>}

\* what the two stack words next to each array may hold
StackWords ==
    [X : [0..1 -> {0, 8}], Y : [0..1 -> {0, 8}], Psi : [0..1 -> {0, 20}]]

---------------------------------------------------------------------------
(* The state machine: the scheduler calls the controller once per cycle *)

VARIABLES
    pointer_bytes,  \* sizeof(double *) of the build
    x,              \* static double x: the filter state, kept between calls
    pc,             \* "idle" between calls, "returned" when a call has ended
    args,           \* the arguments of the call
    stack,          \* the stack words next to X_loc, Y_loc and Psi_loc
    frame,          \* the locals of the call
    out             \* *roll_ref and *closestpoint_idx_out

vars == <<pointer_bytes, x, pc, args, stack, frame, out>>

None == <<>>

Init ==
    /\ pointer_bytes \in PointerBytes
    /\ x = 0
    /\ pc = "idle"
    /\ args = None
    /\ stack = None
    /\ frame = None
    /\ out = None

\* one call of trajectory_controller, from entry to the closing brace
trajectory_controller ==
    /\ pc = "idle"
    /\ \E t \in Windows, Xe \in XEstimates, Ye \in YEstimates, Pe \in PsiEstimates,
          ve \in Velocities, bp \in BikeParams, tp \in TrajParams,
          fc \in FilterCoeffs, w \in StackWords :
          LET a == [traj_loc |-> t, X_est |-> Xe, Y_est |-> Ye, Psi_est |-> Pe,
                    v |-> ve, bike_params |-> bp, traj_params |-> tp,
                    Ad_t |-> fc[1], Bd_t |-> fc[2], C_t |-> fc[3], D_t |-> fc[4]]
          IN  \E f \in {Frame(a, w, x, pointer_bytes)} :
              /\ f.dis # 0
              /\ Abs(f.x_dot) <= MaxX
              /\ args' = a
              /\ stack' = w
              /\ frame' = f
              /\ x' = f.x_dot
              /\ out' = [roll_ref |-> RollRef(f.delta_ref, ve, bp[1], bp[2], bp[3]),
                         closestpoint_idx_out |-> f.closestpoint_idx - 1]
    /\ pc' = "returned"
    /\ UNCHANGED pointer_bytes

\* the call is over: its frame is gone and the caller has taken the outputs;
\* only the static x remains
Return ==
    /\ pc = "returned"
    /\ pc' = "idle"
    /\ args' = None
    /\ stack' = None
    /\ frame' = None
    /\ out' = None
    /\ UNCHANGED <<pointer_bytes, x>>

Next == trajectory_controller \/ Return

Spec == Init /\ [][Next]_vars

\* the number of waypoints in the caller's buffer
N == Cardinality(DOMAIN args.traj_loc) \div 3

\* the arrays as the call read them
Mem == Reads(frame.X_loc, frame.Y_loc, frame.Psi_loc, stack)

---------------------------------------------------------------------------
(* The caller's window, as the interface describes it *)

\* waypoint i of the buffer [X_0..X_{N-1}, Y_0..Y_{N-1}, Psi_0..Psi_{N-1}]
WaypointX(i) == args.traj_loc[i]
WaypointY(i) == args.traj_loc[N + i]
WaypointPsi(i) == args.traj_loc[2 * N + i]

\* squared distance from the estimated position to waypoint i
WaypointDist2(i) ==
    Pow2(WaypointX(i) - args.X_est) + Pow2(WaypointY(i) - args.Y_est)

\* the window is a straight line with all headings equal, the bike is on it
\* (no lateral offset, between the first and the last waypoint) and heads
\* along it
OnStraightPath ==
    LET psi == WaypointPsi(0)
        along(i) == (args.X_est - WaypointX(i)) * Cos(psi)
                    + (args.Y_est - WaypointY(i)) * Sin(psi)
    IN  /\ \A i \in 0..(N - 1) : WaypointPsi(i) = psi
        /\ along(0) >= 0 /\ along(N - 1) <= 0
        /\ \A i \in 0..(N - 2) :
              /\ (WaypointY(i + 1) - WaypointY(i)) * Cos(psi)
                   - (WaypointX(i + 1) - WaypointX(i)) * Sin(psi) = 0
              /\ (WaypointX(i + 1) - WaypointX(i)) * Cos(psi)
                   + (WaypointY(i + 1) - WaypointY(i)) * Sin(psi) > 0
        /\ (args.Y_est - WaypointY(0)) * Cos(psi)
             - (args.X_est - WaypointX(0)) * Sin(psi) = 0
        /\ (args.Psi_est - psi) % (2 * PI) = 0

Returned == pc = "returned"

---------------------------------------------------------------------------
(* Claims *)

\* C1: for every window of N >= 4 waypoints and every position, the index at
\* which the closest-point search stops lies in 1..N-1.
C1_IndexInWindow ==
    Returned => (N >= 4 /\ frame.closestpoint_idx \in 1..(N - 1))

\* C1 witness: a call on a 4-point window in which the search advanced.
C1_SearchAdvanced ==
    Returned /\ N = 4 /\ frame.closestpoint_idx > StartIdx

\* C2: x is 0 at the start; every call computes delta_ref_psi and the new x
\* from the x stored by the previous call, and x changes in no other step.
C2_FilterStep ==
    /\ x = 0
    /\ [][/\ (pc = "idle" /\ pc' = "returned") =>
               /\ frame'.delta_ref_psi = args'.C_t * x + args'.D_t * frame'.dpsiref
               /\ x' = args'.Ad_t * x + args'.Bd_t * frame'.dpsiref
          /\ (pc # "idle") => x' = x]_vars

\* C2 witness: a call whose delta_ref_psi and new x both depend on a nonzero
\* x left by an earlier call.
C2_UsedStoredState ==
    /\ Returned
    /\ frame.delta_ref_psi # args.D_t * frame.dpsiref
    /\ x # args.Bd_t * frame.dpsiref

\* the heading error before wrapping: Psi_est - Psi_loc[closestpoint_heading_idx]
RawE2 == args.Psi_est - Mem.Psi[frame.closestpoint_heading_idx]

\* C3 as stated: e2 is the wrapped heading error, in (-pi, pi], pi for an
\* error of pi, and wrapping is periodic.
C3_WrapHalfOpenAbove ==
    Returned =>
        /\ frame.e2 > -PI /\ frame.e2 <= PI
        /\ (RawE2 = PI => frame.e2 = PI)
        /\ \A k \in -MaxK..MaxK : wrap_angle(RawE2 + 2 * PI * k) = frame.e2

\* C3 amended: e2 is the wrapped heading error, in [-pi, pi), congruent to the
\* raw error modulo 2 pi (so -pi for an error of pi), and wrapping is periodic.
C3_WrapHalfOpenBelow ==
    Returned =>
        /\ frame.e2 >= -PI /\ frame.e2 < PI
        /\ (frame.e2 - RawE2) % (2 * PI) = 0
        /\ \A k \in -MaxK..MaxK : wrap_angle(RawE2 + 2 * PI * k) = frame.e2

\* C3 witness: a heading error of exactly pi, wrapped to -pi.
C3_WrappedPi == Returned /\ RawE2 = PI /\ frame.e2 = -PI

\* C4: on a straight window with equal headings, the bike on the path and
\* heading along it, and the filter state 0, a call returns roll_ref = 0 and
\* leaves the filter state 0.
C4_OnPathZeroRoll ==
    [][(pc = "idle" /\ pc' = "returned" /\ x = 0 /\ OnStraightPath')
          => (out'.roll_ref = 0 /\ x' = 0)]_vars

C6_WindowLayout ==
    Returned =>
        /\ frame.size_traj_loc = N
        /\ \A i \in 0..(N - 1) :
              /\ Mem.X[i] = WaypointX(i)
              /\ Mem.Y[i] = WaypointY(i)
              /\ Mem.Psi[i] = WaypointPsi(i)

\* the smallest index >= 1 whose successor is strictly farther from the bike,
\* or N-1 when there is none
FirstLocalMinimum ==
    LET stops == {i \in 1..(N - 2) : WaypointDist2(i + 1) > WaypointDist2(i)}
    IN  IF stops = {} THEN N - 1
        ELSE CHOOSE i \in stops : \A j \in stops : i <= j

\* C7: the search returns the smallest index idx >= 1 such that waypoint idx+1
\* is strictly farther from the bike than waypoint idx, or N-1.
C7_ForwardSearch ==
    Returned => frame.closestpoint_idx = FirstLocalMinimum

\* C8: the limited D_psiref is the raw difference Psi[idx+1] - Psi[idx] minus
\* 2 pi when that exceeds pi, plus 2 pi when it is below -pi, and the raw
\* difference otherwise; it lies in [-pi, pi] when |raw| < 3 pi.
C8_SingleCorrection ==
    Returned =>
        LET idx == frame.closestpoint_idx
            raw == Mem.Psi[idx + 1] - Mem.Psi[idx]
        IN  /\ frame.D_psiref = (IF raw > PI THEN raw - 2 * PI
                                 ELSE IF raw < -PI THEN raw + 2 * PI ELSE raw)
            /\ (Abs(raw) < 3 * PI => (frame.D_psiref >= -PI /\ frame.D_psiref <= PI))

\* C9: the heading index is idx+1 exactly when the bike's forward progress
\* past waypoint idx-1 along the heading Psi[idx] is at least the length of
\* the segment from waypoint idx-1 to waypoint idx, and idx otherwise (also
\* when the bike is behind waypoint idx-1); idx itself is not changed.
C9_HeadingSelection ==
    Returned =>
        LET idx == frame.closestpoint_idx
            progress == (args.X_est - Mem.X[idx - 1]) * Cos(Mem.Psi[idx])
                        + (args.Y_est - Mem.Y[idx - 1]) * Sin(Mem.Psi[idx])
            segment2 == Pow2(Mem.X[idx] - Mem.X[idx - 1])
                        + Pow2(Mem.Y[idx] - Mem.Y[idx - 1])
            passed == progress >= 0 /\ Pow2(progress) >= segment2
        IN  /\ frame.closestpoint_heading_idx = (IF passed THEN idx + 1 ELSE idx)
            /\ out.closestpoint_idx_out = idx - 1

\* C10: every index at which a call reads X_loc, Y_loc or Psi_loc lies in
\* 0..N-1 and inside these arrays.
C10_ReadsInsideArrays ==
    Returned =>
        /\ frame.reads \subseteq 0..(N - 1)
        /\ frame.reads \subseteq DOMAIN frame.X_loc
        /\ frame.reads \subseteq DOMAIN frame.Y_loc
        /\ frame.reads \subseteq DOMAIN frame.Psi_loc

===========================================================================
